---- MODULE Spec2Model ----
(***************************************************************************)
(* target_s3_csv: the message loop of persist_messages, the header         *)
(* reconciliation, the csv rows appended to the per-stream staging files,  *)
(* the header injection at end of input, the upload and the final state    *)
(* line written by main.                                                   *)
(*                                                                         *)
(* Text is modelled as sequences of one-character strings, so that         *)
(* joining, quoting, splitting and newline translation are computed on     *)
(* characters as the csv module and the text-mode file objects do.         *)
(***************************************************************************)
EXTENDS Integers, Sequences, FiniteSets, TLC

\* ------------------------------------------------------------------------
\* Characters
\* ------------------------------------------------------------------------
CR == "\r"
LF == "\n"
COMMA == ","
SEMI == ";"
DQUOTE == "\""

\* ------------------------------------------------------------------------
\* Bounds and input alphabets
\* ------------------------------------------------------------------------
\* Number of input lines read by one run.
MaxMsgs == 4

Streams == {"s1", "s2"}

\* Flattened column names.
Keys == {<<"a">>, <<"b">>}

\* Python's None (the initial value of state).
None == "None"

\* ------------------------------------------------------------------------
\* Generic sequence helpers
\* ------------------------------------------------------------------------
Range(s) == {s[i] : i \in DOMAIN s}

NoDup(s) == \A i, j \in DOMAIN s : s[i] = s[j] => i = j

IsPrefix(s, t) == Len(s) <= Len(t) /\ SubSeq(t, 1, Len(s)) = s

RECURSIVE Flatten(_)
Flatten(ss) == IF ss = <<>> THEN <<>> ELSE Head(ss) \o Flatten(Tail(ss))

\* str.join: the items separated by sep.
RECURSIVE JoinWith(_, _)
JoinWith(items, sep) ==
    IF items = <<>> THEN <<>>
    ELSE IF Len(items) = 1 THEN items[1]
    ELSE items[1] \o sep \o JoinWith(Tail(items), sep)

DictSetAlone(d, k, v) == [x \in {k} |-> v]

\* Python dict as a function on the set of its keys.
DictSet(d, k, v) == [x \in (DOMAIN d) \cup {k} |-> IF x = k THEN v ELSE d[x]]

EmptyDict == <<>>

\* ------------------------------------------------------------------------
\* Text files and the csv module
\* ------------------------------------------------------------------------
\* Reading a file opened with open(name, 'r'): universal newlines, every
\* "\r\n" and every lone "\r" is returned as "\n".
RECURSIVE ReadText(_)
ReadText(content) ==
    IF content = <<>> THEN <<>>
    ELSE IF Head(content) = CR
         THEN IF Len(content) >= 2 /\ content[2] = LF
              THEN <<LF>> \o ReadText(Tail(Tail(content)))
              ELSE <<LF>> \o ReadText(Tail(content))
         ELSE <<Head(content)>> \o ReadText(Tail(content))

\* csv.writer, QUOTE_MINIMAL: a field is quoted when it holds the delimiter,
\* the quote character or a character of the line terminator.
NeedsQuote(field, delimiter, quotechar) ==
    \E i \in DOMAIN field : field[i] \in {delimiter, quotechar, CR, LF}

RECURSIVE DoubleQuotes(_, _)
DoubleQuotes(field, quotechar) ==
    IF field = <<>> THEN <<>>
    ELSE (IF Head(field) = quotechar THEN <<quotechar, quotechar>> ELSE <<Head(field)>>)
         \o DoubleQuotes(Tail(field), quotechar)

WriteField(field, delimiter, quotechar, quote_empty) ==
    IF NeedsQuote(field, delimiter, quotechar) \/ (quote_empty /\ field = <<>>)
    THEN <<quotechar>> \o DoubleQuotes(field, quotechar) \o <<quotechar>>
    ELSE field

\* csv.writer.writerow: the fields joined by the delimiter, then "\r\n".
\* A row made of one empty field is written as a pair of quotes.
WriterRow(fields, delimiter, quotechar) ==
    JoinWith([i \in DOMAIN fields |->
                 WriteField(fields[i], delimiter, quotechar, Len(fields) = 1)],
             <<delimiter>>)
    \o <<CR, LF>>

\* The position after the line terminator that starts at position i: "\n",
\* "\r" or "\r\n".
AfterNewline(t, i) ==
    IF t[i] = CR /\ i + 1 <= Len(t) /\ t[i + 1] = LF THEN i + 2 ELSE i + 1

\* csv.reader: the state machine of the reader over the text from position
\* i; the result is the fields of one record and the position after it.
RECURSIVE ParseFrom(_, _, _, _, _, _, _)
ParseFrom(t, i, st, cur, fields, delimiter, quotechar) ==
    IF i > Len(t)
    THEN [fields |-> IF st = "START_RECORD" THEN fields ELSE Append(fields, cur),
          next |-> i]
    ELSE LET c == t[i] IN
      CASE st \in {"START_RECORD", "START_FIELD"} ->
             IF c \in {CR, LF}
             THEN [fields |-> IF st = "START_RECORD" THEN fields
                              ELSE Append(fields, <<>>),
                   next |-> AfterNewline(t, i)]
             ELSE IF c = quotechar
             THEN ParseFrom(t, i + 1, "IN_QUOTED_FIELD", <<>>, fields,
                            delimiter, quotechar)
             ELSE IF c = delimiter
             THEN ParseFrom(t, i + 1, "START_FIELD", <<>>, Append(fields, <<>>),
                            delimiter, quotechar)
             ELSE ParseFrom(t, i + 1, "IN_FIELD", <<c>>, fields,
                            delimiter, quotechar)
        [] st = "IN_FIELD" ->
             IF c \in {CR, LF}
             THEN [fields |-> Append(fields, cur), next |-> AfterNewline(t, i)]
             ELSE IF c = delimiter
             THEN ParseFrom(t, i + 1, "START_FIELD", <<>>, Append(fields, cur),
                            delimiter, quotechar)
             ELSE ParseFrom(t, i + 1, "IN_FIELD", Append(cur, c), fields,
                            delimiter, quotechar)
        [] st = "IN_QUOTED_FIELD" ->
             IF c = quotechar
             THEN ParseFrom(t, i + 1, "QUOTE_IN_QUOTED_FIELD", cur, fields,
                            delimiter, quotechar)
             ELSE ParseFrom(t, i + 1, "IN_QUOTED_FIELD", Append(cur, c), fields,
                            delimiter, quotechar)
        [] OTHER -> \* QUOTE_IN_QUOTED_FIELD
             IF c = quotechar
             THEN ParseFrom(t, i + 1, "IN_QUOTED_FIELD", Append(cur, c), fields,
                            delimiter, quotechar)
             ELSE IF c = delimiter
             THEN ParseFrom(t, i + 1, "START_FIELD", <<>>, Append(fields, cur),
                            delimiter, quotechar)
             ELSE IF c \in {CR, LF}
             THEN [fields |-> Append(fields, cur), next |-> AfterNewline(t, i)]
             ELSE ParseFrom(t, i + 1, "IN_FIELD", Append(cur, c), fields,
                            delimiter, quotechar)

\* next(reader) on a file just opened for reading: the first record.
FirstLine(content, delimiter, quotechar) ==
    ParseFrom(ReadText(content), 1, "START_RECORD", <<>>, <<>>,
              delimiter, quotechar).fields

\* list(reader): all the records of a file.
RECURSIVE ReadRowsFrom(_, _, _, _)
ReadRowsFrom(t, i, delimiter, quotechar) ==
    IF i > Len(t) THEN <<>>
    ELSE LET r == ParseFrom(t, i, "START_RECORD", <<>>, <<>>, delimiter, quotechar)
         IN <<r.fields>> \o ReadRowsFrom(t, r.next, delimiter, quotechar)

ReadRows(content, delimiter, quotechar) ==
    ReadRowsFrom(ReadText(content), 1, delimiter, quotechar)

\* ------------------------------------------------------------------------
\* Flattened records: an ordered mapping, a sequence of <<key, value>> pairs
\* with distinct keys.
\* ------------------------------------------------------------------------
RecordKeys(rec) == [i \in DOMAIN rec |-> rec[i][1]]

HasKey(rec, k) == \E i \in DOMAIN rec : rec[i][1] = k

\* rowdict.get(key, restval) with restval = ''
RecordGet(rec, k) ==
    IF HasKey(rec, k) THEN rec[CHOOSE i \in DOMAIN rec : rec[i][1] = k][2]
    ELSE <<>>

RECURSIVE OrderedDictKeysAppendAll(_, _)
OrderedDictKeysAppendAll(acc, ks) == acc \o ks

RECURSIVE OrderedDictKeysMoveToEnd(_, _)
OrderedDictKeysMoveToEnd(acc, ks) ==
    IF ks = <<>> THEN acc
    ELSE OrderedDictKeysMoveToEnd(
             Append(SelectSeq(acc, LAMBDA k : k # Head(ks)), Head(ks)), Tail(ks))

\* OrderedDict filled key by key: a key already present keeps its place.
RECURSIVE OrderedDictKeys(_, _)
OrderedDictKeys(acc, ks) ==
    IF ks = <<>> THEN acc
    ELSE OrderedDictKeys(IF Head(ks) \in Range(acc) THEN acc
                         ELSE Append(acc, Head(ks)),
                         Tail(ks))

DictWriterRowInRecordOrder(fieldnames, rec, delimiter, quotechar) ==
    WriterRow([i \in DOMAIN rec |-> rec[i][2]], delimiter, quotechar)

\* csv.DictWriter(fieldnames, extrasaction='ignore').writerow(rowdict)
DictWriterRow(fieldnames, rec, delimiter, quotechar) ==
    WriterRow([i \in DOMAIN fieldnames |-> RecordGet(rec, fieldnames[i])],
              delimiter, quotechar)

\* Lines of a text in the sense of iterating a file: each ends after its "\n".
RECURSIVE CountLines(_)
CountLines(t) ==
    IF t = <<>> THEN 0
    ELSE IF \E i \in DOMAIN t : t[i] = LF
         THEN 1 + CountLines(SubSeq(t, (CHOOSE i \in DOMAIN t :
                                          t[i] = LF /\ \A j \in 1..(i-1) : t[j] # LF) + 1,
                                    Len(t)))
         ELSE 1

\* ------------------------------------------------------------------------
\* Inputs
\* ------------------------------------------------------------------------
\* config['delimiter'] and config['quotechar']
Delimiters == {COMMA, SEMI}

Configs == [delimiter : Delimiters, quotechar : {DQUOTE}]

\* Key orders of the flattened records: distinct keys, any order.
KeySeqs == {<<>>} \cup {<<k>> : k \in Keys}
           \cup {ks \in {<<k1, k2>> : k1, k2 \in Keys} : ks[1] # ks[2]}

\* The values of the record read as the n-th line: the key's name and the
\* digit n; in column b a comma and a line break "\r\n" stand in between (a
\* field the writer has to quote).
Digits == <<"1", "2", "3", "4", "5", "6", "7", "8", "9">>

ValueOf(k, n) ==
    IF k = <<"b">> THEN k \o <<COMMA, CR, LF, Digits[n]>> ELSE k \o <<Digits[n]>>

FlatRecord(ks, n) == [i \in DOMAIN ks |-> <<ks[i], ValueOf(ks[i], n)>>]

\* Schemas of SCHEMA messages: the declared properties (no others allowed),
\* and whether a property carries a multipleOf constraint of long precision.
Schemas == {[properties |-> {<<"a">>, <<"b">>}, multipleOf |-> FALSE],
            [properties |-> {<<"a">>}, multipleOf |-> FALSE],
            [properties |-> {<<"a">>, <<"b">>}, multipleOf |-> TRUE]}

StateValues == {"bookmark1", "bookmark2"}

\* The input lines. The record of a RECORD message is given flattened: the
\* result of utils.flatten_record on the record without metadata columns.
RecordMessages(n) ==
    {[type |-> "RECORD", stream |-> s, record |-> FlatRecord(ks, n)] :
        s \in Streams, ks \in KeySeqs}
StateMessages == [type : {"STATE"}, value : StateValues]
SchemaMessages == [type : {"SCHEMA"}, stream : Streams, schema : Schemas,
                   key_properties : {<<"a">>}]
ActivateVersionMessages == {[type |-> "ACTIVATE_VERSION"]}
\* A line whose type is none of the four the message loop handles.
UnknownMessages == {[type |-> "BATCH"]}
UnparseableLines == {[type |-> "not json"]}

\* A staging file left at the stream's path before the run: a header line
\* that names a column twice, and one row.
ExistingFile == <<"c", COMMA, "a", COMMA, "c", LF,
                  "8", COMMA, "9", COMMA, "7", LF>>

\* temp_dir before the run: the file of s1 is absent or left with content,
\* the file of s2 exists and is empty.
InitialFiles == {[s \in {"s2"} |-> <<>>],
                 [s \in Streams |-> IF s = "s1" THEN ExistingFile ELSE <<>>]}

\* ------------------------------------------------------------------------
\* State
\* ------------------------------------------------------------------------
VARIABLES
    config,          \* the configuration of the run
    fs,              \* temp_dir: stream |-> content of its file, if it exists
    fs0,             \* temp_dir as it was when the run started
    pc,              \* position of the run
    nread,           \* number of input lines read
    message,         \* persist_messages: the line read last
    state,           \* persist_messages: state
    schemas,         \* persist_messages: schemas
    validators,      \* persist_messages: validators
    key_properties,  \* persist_messages: key_properties
    headers,         \* persist_messages: headers
    filenames,       \* persist_messages: filenames, in insertion order
    record_counter,  \* persist_messages: record_counter
    finalized,       \* streams whose file the header loop has rewritten
    uploaded,        \* files handed to and uploaded by s3.upload_files
    metrics,         \* record_count metrics logged by print_metric
    stdout,          \* lines written to sys.stdout
    error,           \* the exception that ended the run, if any
    records_in,      \* history: per stream, the flattened records persisted
    rows_out,        \* history: per stream, the rows written by writerow
    states_in        \* history: the values of the STATE messages read

vars == <<config, fs, fs0, pc, nread, message, state, schemas, validators,
          key_properties, headers, filenames, record_counter, finalized,
          uploaded, metrics, stdout, error, records_in, rows_out, states_in>>

loopVars == <<state, schemas, validators, key_properties, headers, filenames,
              record_counter, fs, records_in, rows_out, states_in>>

endVars == <<finalized, uploaded, metrics, stdout>>

Init ==
    /\ config \in Configs
    /\ fs \in InitialFiles
    /\ fs0 = fs
    /\ pc = "loop"
    /\ nread = 0
    /\ message = None
    /\ state = None
    /\ schemas = EmptyDict
    /\ validators = EmptyDict
    /\ key_properties = EmptyDict
    /\ headers = EmptyDict
    /\ filenames = <<>>
    /\ record_counter = EmptyDict
    /\ finalized = <<>>
    /\ uploaded = <<>>
    /\ metrics = EmptyDict
    /\ stdout = <<>>
    /\ error = None
    /\ records_in = [s \in Streams |-> <<>>]
    /\ rows_out = [s \in Streams |-> <<>>]
    /\ states_in = <<>>

\* The message loop reads one more line.
ReadLine(line) ==
    /\ pc = "loop"
    /\ nread < MaxMsgs
    /\ nread' = nread + 1
    /\ message' = line

RaiseAndGoOn(ex) ==
    /\ pc' = pc
    /\ error' = ex

\* An exception leaves persist_messages and main.
Raise(ex) ==
    /\ pc' = "failed"
    /\ error' = ex

Continue == UNCHANGED <<pc, error>>

\* ------------------------------------------------------------------------
\* The message loop
\* ------------------------------------------------------------------------
\* singer.parse_message raises JSONDecodeError.
UnparseableLine(line) ==
    /\ ReadLine(line)
    /\ Raise("JSONDecodeError")
    /\ UNCHANGED <<config, fs0, loopVars, endVars>>

SchemaKnownUnchecked(stream_name) == TRUE

\* if stream_name not in schemas: raise
SchemaKnown(stream_name) == stream_name \in DOMAIN schemas

\* RECORD of a stream that is not in schemas.
RecordWithoutSchema(o) ==
    /\ ReadLine(o)
    /\ ~SchemaKnown(o.stream)
    /\ Raise("Exception")
    /\ UNCHANGED <<config, fs0, loopVars, endVars>>

ValidateAllFatal(stream_name, record) ==
    IF stream_name \notin DOMAIN validators THEN "KeyError"
    ELSE IF record # <<>>
            /\ (\/ validators[stream_name].multipleOf
                \/ \E i \in DOMAIN record :
                      record[i][1] \notin validators[stream_name].properties)
         THEN "InvalidOperation"
         ELSE None

\* validators[stream_name].validate(record) inside the try block: the name
\* of the exception caught, if any.
Validate(stream_name, record) ==
    IF stream_name \notin DOMAIN validators THEN "KeyError"
    ELSE IF validators[stream_name].multipleOf /\ record # <<>>
         THEN "InvalidOperation"
    ELSE IF \E i \in DOMAIN record :
                record[i][1] \notin validators[stream_name].properties
         THEN "ValidationError"
         ELSE None

\* RECORD whose validation raises InvalidOperation.
RecordPrecisionError(o) ==
    /\ ReadLine(o)
    /\ SchemaKnown(o.stream)
    /\ Validate(o.stream, o.record) = "InvalidOperation"
    /\ Raise("InvalidOperation")
    /\ UNCHANGED <<config, fs0, loopVars, endVars>>

file_is_empty(stream_name) ==
    stream_name \notin DOMAIN fs \/ fs[stream_name] = <<>>

ReconcileHeadersAllLines(stream_name, flattened_record) ==
    OrderedDictKeys(
        IF stream_name \in DOMAIN headers
        THEN OrderedDictKeys(<<>>, headers[stream_name])
        ELSE IF file_is_empty(stream_name) THEN <<>>
        ELSE OrderedDictKeys(<<>>, Flatten(ReadRows(fs[stream_name],
                                                    config.delimiter,
                                                    config.quotechar))),
        RecordKeys(flattened_record))

ReconcileHeadersReplace(stream_name, flattened_record) ==
    OrderedDictKeys(<<>>, RecordKeys(flattened_record))

\* The headers of the stream after the record: the first line of a file
\* found with content by the first record of the stream, or the headers so
\* far, extended by the record's keys.
ReconcileHeaders(stream_name, flattened_record) ==
    IF stream_name \notin DOMAIN headers /\ ~file_is_empty(stream_name)
    THEN OrderedDictKeys(
             OrderedDictKeys(<<>>, FirstLine(fs[stream_name], config.delimiter,
                                             config.quotechar)),
             RecordKeys(flattened_record))
    ELSE OrderedDictKeys(
             IF stream_name \in DOMAIN headers
             THEN OrderedDictKeys(<<>>, headers[stream_name]) ELSE <<>>,
             RecordKeys(flattened_record))

\* open(filename, 'a') and writer.writerow(flattened_record)
AppendRowBeforeReconcile(stream_name, fieldnames, flattened_record) ==
    (IF stream_name \in DOMAIN fs THEN fs[stream_name] ELSE <<>>)
    \o DictWriterRow(IF stream_name \in DOMAIN headers
                     THEN headers[stream_name] ELSE fieldnames,
                     flattened_record, config.delimiter, config.quotechar)

AppendRow(stream_name, fieldnames, flattened_record) ==
    (IF stream_name \in DOMAIN fs THEN fs[stream_name] ELSE <<>>)
    \o DictWriterRow(fieldnames, flattened_record, config.delimiter, config.quotechar)

IncrementCounterReset(stream_name) == 0 + 1

\* if stream_name not in record_counter: ... = 0; record_counter[...] += 1
IncrementCounter(stream_name) ==
    (IF stream_name \in DOMAIN record_counter
     THEN record_counter[stream_name] ELSE 0) + 1

\* RECORD that is persisted: validation passes or fails with another error.
Record(o) ==
    /\ ReadLine(o)
    /\ SchemaKnown(o.stream)
    /\ Validate(o.stream, o.record) # "InvalidOperation"
    /\ filenames' = IF o.stream \in Range(filenames) THEN filenames
                    ELSE Append(filenames, o.stream)
    /\ headers' = DictSet(headers, o.stream, ReconcileHeaders(o.stream, o.record))
    /\ record_counter' = DictSet(record_counter, o.stream, IncrementCounter(o.stream))
    /\ fs' = DictSet(fs, o.stream, AppendRow(o.stream, headers'[o.stream], o.record))
    /\ records_in' = [records_in EXCEPT ![o.stream] = Append(@, o.record)]
    /\ rows_out' = [rows_out EXCEPT ![o.stream] =
                        Append(@, DictWriterRow(headers'[o.stream], o.record,
                                                config.delimiter, config.quotechar))]
    /\ Continue
    /\ UNCHANGED <<config, fs0, state, schemas, validators, key_properties,
                   states_in, endVars>>

\* state = o['value']
StateMessage(o) ==
    /\ ReadLine(o)
    /\ state' = o.value
    /\ states_in' = Append(states_in, o.value)
    /\ Continue
    /\ UNCHANGED <<config, fs0, schemas, validators, key_properties, headers,
                   filenames, record_counter, fs, records_in, rows_out,
                   endVars>>

SchemaMessage(o) ==
    /\ ReadLine(o)
    /\ schemas' = DictSet(schemas, o.stream, o.schema)
    /\ validators' = DictSet(validators, o.stream, o.schema)
    /\ key_properties' = DictSet(key_properties, o.stream, o.key_properties)
    /\ Continue
    /\ UNCHANGED <<config, fs0, state, headers, filenames, record_counter, fs,
                   records_in, rows_out, states_in, endVars>>

ActivateVersion(o) ==
    /\ ReadLine(o)
    /\ Continue
    /\ UNCHANGED <<config, fs0, loopVars, endVars>>

\* A type the parser of the singer library knows and the loop does not: the
\* else branch logs a warning.
UnknownMessage(o) ==
    /\ ReadLine(o)
    /\ Continue
    /\ UNCHANGED <<config, fs0, loopVars, endVars>>

\* A type the parser of the singer library does not know: parse_message
\* returns None and the call of asdict on it raises AttributeError, which
\* the except clause does not catch.
ParseMessageReturnsNone(o) ==
    /\ ReadLine(o)
    /\ Raise("AttributeError")
    /\ UNCHANGED <<config, fs0, loopVars, endVars>>

\* ------------------------------------------------------------------------
\* End of input: the header loop, the upload, the metrics and the state line
\* ------------------------------------------------------------------------
\* The input is exhausted: the for loop over messages ends.
EndOfInput ==
    /\ pc = "loop"
    /\ pc' = "finalize"
    /\ UNCHANGED <<config, fs0, nread, message, loopVars, endVars, error>>

\* The file written by the header loop for one stream: the headers joined
\* by "," and "\n", then the lines read from the staging file.
FinalContent(stream_name) ==
    JoinWith(headers[stream_name], <<COMMA>>) \o <<LF>> \o ReadText(fs[stream_name])

\* One iteration of the header loop, over filenames in insertion order.
FinalizeFile ==
    /\ pc = "finalize"
    /\ Len(finalized) < Len(filenames)
    /\ LET stream_name == filenames[Len(finalized) + 1] IN
         /\ fs' = [fs EXCEPT ![stream_name] = FinalContent(stream_name)]
         /\ finalized' = Append(finalized, stream_name)
    /\ UNCHANGED <<config, fs0, nread, message, pc, error, state, schemas,
                   validators, key_properties, headers, filenames,
                   record_counter, uploaded, metrics, stdout, records_in,
                   rows_out, states_in>>

FinalizeFileFailsSilently(keep) ==
    /\ pc = "finalize"
    /\ Len(finalized) < Len(filenames)
    /\ LET stream_name == filenames[Len(finalized) + 1] IN
         /\ keep <= Len(FinalContent(stream_name))
         /\ fs' = [fs EXCEPT ![stream_name] = SubSeq(FinalContent(stream_name), 1, keep)]
         /\ finalized' = Append(finalized, stream_name)
    /\ UNCHANGED <<config, fs0, nread, message, pc, error, state, schemas,
                   validators, key_properties, headers, filenames,
                   record_counter, uploaded, metrics, stdout, records_in,
                   rows_out, states_in>>

\* An I/O error in one iteration of the header loop, after the staging file
\* was unlinked and the new file opened for writing: the first keep
\* characters of the new content reached the file.
FinalizeFileFails(keep) ==
    /\ pc = "finalize"
    /\ Len(finalized) < Len(filenames)
    /\ LET stream_name == filenames[Len(finalized) + 1] IN
         /\ keep <= Len(FinalContent(stream_name))
         /\ fs' = [fs EXCEPT ![stream_name] = SubSeq(FinalContent(stream_name), 1, keep)]
    /\ Raise("OSError")
    /\ UNCHANGED <<config, fs0, nread, message, state, schemas, validators,
                   key_properties, headers, filenames, record_counter,
                   finalized, uploaded, metrics, stdout, records_in, rows_out, states_in>>

\* s3.upload_files on the first n files of filenames: each is uploaded with
\* the content it has, and removed from temp_dir.
S3Uploaded(n) ==
    [i \in 1..n |-> [stream |-> filenames[i], content |-> fs[filenames[i]]]]

S3Removed(n) ==
    [s \in (DOMAIN fs) \ {filenames[i] : i \in 1..n} |-> fs[s]]

UploadFilesEarly ==
    /\ pc = "finalize"
    /\ uploaded' = S3Uploaded(Len(filenames))
    /\ fs' = S3Removed(Len(filenames))
    /\ metrics' = record_counter
    /\ pc' = "return"
    /\ UNCHANGED <<config, fs0, nread, message, error, state, schemas,
                   validators, key_properties, headers, filenames,
                   record_counter, finalized, stdout, records_in, rows_out, states_in>>

\* s3.upload_files(iter(filenames.values()), ...): every file is uploaded
\* under its target key and removed; then print_metric for every stream of
\* record_counter.
UploadFiles ==
    /\ pc = "finalize"
    /\ Len(finalized) = Len(filenames)
    /\ uploaded' = S3Uploaded(Len(filenames))
    /\ fs' = S3Removed(Len(filenames))
    /\ metrics' = record_counter
    /\ pc' = "return"
    /\ UNCHANGED <<config, fs0, nread, message, error, state, schemas,
                   validators, key_properties, headers, filenames,
                   record_counter, finalized, stdout, records_in, rows_out, states_in>>

\* s3.upload_files raises at the n-th file.
UploadFilesFails(n) ==
    /\ pc = "finalize"
    /\ Len(finalized) = Len(filenames)
    /\ n \in DOMAIN filenames
    /\ uploaded' = S3Uploaded(n - 1)
    /\ fs' = S3Removed(n - 1)
    /\ Raise("PublishError")
    /\ UNCHANGED <<config, fs0, nread, message, state, schemas, validators,
                   key_properties, headers, filenames, record_counter,
                   finalized, metrics, stdout, records_in, rows_out, states_in>>

EmitStateLinesAlways(value) == <<value>>

\* emit_state: the lines written for a state, json.dumps(state) and "\n".
EmitStateLines(value) == IF value # None THEN <<value>> ELSE <<>>

\* persist_messages returns state; main calls emit_state(state).
EmitState ==
    /\ pc = "return"
    /\ stdout' = stdout \o EmitStateLines(state)
    /\ pc' = "done"
    /\ UNCHANGED <<config, fs0, nread, message, error, loopVars, finalized,
                   uploaded, metrics>>

Next ==
    \/ \E line \in UnparseableLines : UnparseableLine(line)
    \/ \E o \in RecordMessages(nread + 1) : RecordWithoutSchema(o)
    \/ \E o \in RecordMessages(nread + 1) : RecordPrecisionError(o)
    \/ \E o \in RecordMessages(nread + 1) : Record(o)
    \/ \E o \in StateMessages : StateMessage(o)
    \/ \E o \in SchemaMessages : SchemaMessage(o)
    \/ \E o \in ActivateVersionMessages : ActivateVersion(o)
    \/ \E o \in UnknownMessages : UnknownMessage(o)
    \/ \E o \in UnknownMessages : ParseMessageReturnsNone(o)
    \/ EndOfInput
    \/ FinalizeFile
    \/ \E keep \in 0..1 : FinalizeFileFails(keep)
    \/ UploadFiles
    \/ \E n \in 1..Cardinality(Streams) : UploadFilesFails(n)
    \/ EmitState

Spec == Init /\ [][Next]_vars

\* ------------------------------------------------------------------------
\* Properties
\* ------------------------------------------------------------------------
\* The staging file of the stream was absent or empty when the run started.
FileWasEmpty(s) == s \notin DOMAIN fs0 \/ fs0[s] = <<>>

\* All the keys of the records persisted for the stream, in arrival order.
KeysSeen(s) ==
    Flatten([i \in DOMAIN records_in[s] |-> RecordKeys(records_in[s][i])])

FirstIndex(seq, x) ==
    CHOOSE i \in DOMAIN seq : seq[i] = x /\ \A j \in 1..(i - 1) : seq[j] # x

\* h holds each element of seq once, ordered by first occurrence in seq.
IsFirstSeenOrder(h, seq) ==
    /\ NoDup(h)
    /\ Range(h) = Range(seq)
    /\ \A i, j \in DOMAIN h : i < j => FirstIndex(seq, h[i]) < FirstIndex(seq, h[j])

Last(seq) == seq[Len(seq)]

\* The last line read was a RECORD and it was persisted.
RecordPersisted == nread > 0 /\ message.type = "RECORD" /\ error = None

\* C1: for every stream whose staging file was empty or absent before its
\* first RECORD, the HeaderSet is, after every record and at the end of the
\* run, the distinct flattened keys of the stream's records in order of first
\* occurrence, without duplicates.
C1_HeaderSetIsFirstSeenUnion ==
    \A s \in Streams :
        (FileWasEmpty(s) /\ records_in[s] # <<>>) =>
            /\ s \in DOMAIN headers
            /\ IsFirstSeenOrder(headers[s], KeysSeen(s))

C1_Witness ==
    /\ pc = "done"
    /\ \E s \in Streams :
        /\ FileWasEmpty(s)
        /\ Len(records_in[s]) >= 2
        /\ RecordKeys(records_in[s][1]) = <<(<<"b">>)>>
        /\ RecordKeys(records_in[s][2]) = <<(<<"a">>), (<<"b">>)>>
        /\ headers[s] = <<(<<"b">>), (<<"a">>)>>

\* The finalized files: those rewritten and still in temp_dir, and those
\* handed to the upload.
FinalizedFiles ==
    {[stream |-> finalized[i], content |-> fs[finalized[i]]] :
        i \in {j \in DOMAIN finalized : finalized[j] \in DOMAIN fs}}
    \cup Range(uploaded)

\* The csv records of a file, read with the configured dialect.
CsvRows(content) == ReadRows(content, config.delimiter, config.quotechar)

\* The RecordCounter reported for each stream is the number of its RECORD
\* messages processed.
MetricsCountRecords ==
    pc \in {"return", "done"} =>
        /\ DOMAIN metrics = {s \in Streams : records_in[s] # <<>>}
        /\ \A s \in DOMAIN metrics : metrics[s] = Len(records_in[s])

\* C2 as stated: for every stream, after finalization the number of data
\* rows of the stream's file, all lines after the header line, equals the
\* number of RECORD messages processed for the stream and the RecordCounter
\* reported for it.
C2_RowCountEqualsRecords ==
    /\ MetricsCountRecords
    /\ \A f \in FinalizedFiles :
          CountLines(f.content) - 1 = Len(records_in[f.stream])

\* C2 amended: the RecordCounter reported for a stream is the number of its
\* RECORD messages processed, and so is the number of csv records after the
\* header line of the finalized file of a stream whose staging file was
\* empty or absent before the run.
C2_RowCountAmended ==
    /\ MetricsCountRecords
    /\ \A f \in FinalizedFiles :
          FileWasEmpty(f.stream) =>
              Len(CsvRows(f.content)) - 1 = Len(records_in[f.stream])

C2_Witness ==
    /\ pc = "done"
    /\ \E i \in DOMAIN uploaded :
        /\ FileWasEmpty(uploaded[i].stream)
        /\ Len(records_in[uploaded[i].stream]) >= 2
        /\ Len(CsvRows(uploaded[i].content)) = 3
        /\ metrics[uploaded[i].stream] = 2

\* C3: a RECORD of a stream without an earlier SCHEMA fails and halts the
\* run: the step that reads it ends in the failed state and leaves headers,
\* files, filenames and counters as they were, and no step follows a failure.
C3_RecordBeforeSchemaIsFatal ==
    [][/\ pc # "failed"
       /\ (/\ nread' = nread + 1
           /\ message'.type = "RECORD"
           /\ message'.stream \notin DOMAIN schemas)
          => /\ pc' = "failed"
             /\ error' # None
             /\ UNCHANGED <<headers, fs, filenames, record_counter, records_in,
                            state, stdout, uploaded, finalized>>]_vars

C3_Witness ==
    /\ pc = "failed"
    /\ error = "Exception"
    /\ message.type = "RECORD"
    /\ message.stream \notin DOMAIN schemas
    /\ record_counter # EmptyDict
    /\ state # None

LoopErrors == {"JSONDecodeError", "AttributeError", "Exception",
               "InvalidOperation"}

\* C5: after a fatal error of the message loop the run is over: no state
\* line is written, no file is finalized and no file is uploaded, whatever
\* STATE messages were read before.
C5_FatalErrorEmitsNothing ==
    error \in LoopErrors =>
        /\ pc = "failed"
        /\ stdout = <<>>
        /\ finalized = <<>>
        /\ uploaded = <<>>

C5_Witness ==
    /\ error = "InvalidOperation"
    /\ state # None
    /\ filenames # <<>>
    /\ stdout = <<>>

\* C6: every file is finalized before any is uploaded, every upload has
\* returned before the state line is written, and after a failure of the
\* header loop or of the upload no state line is written.
C6_EndPhasesInOrder ==
    /\ uploaded # <<>> => finalized = filenames
    /\ pc \in {"return", "done"} =>
          /\ finalized = filenames
          /\ [i \in DOMAIN uploaded |-> uploaded[i].stream] = filenames
    /\ stdout # <<>> => pc = "done"
    /\ error \in {"OSError", "PublishError"} => pc = "failed" /\ stdout = <<>>

C6_Witness ==
    /\ pc = "done"
    /\ stdout # <<>>
    /\ filenames # <<>>
    /\ finalized = filenames
    /\ Len(uploaded) = Len(filenames)

\* C7: no step shrinks or reorders a HeaderSet: the HeaderSet of a stream
\* before the step is a prefix of its HeaderSet after the step.
C7_HeaderSetOnlyGrows ==
    [][\A s \in DOMAIN headers :
          /\ s \in DOMAIN headers'
          /\ IsPrefix(headers[s], headers'[s])]_vars

\* A SCHEMA message has just declared fewer columns than the HeaderSet of
\* its stream holds, and the HeaderSet is as the records left it.
C7_Witness ==
    /\ nread >= 3
    /\ message.type = "SCHEMA"
    /\ message.schema.properties = {<<"a">>}
    /\ message.stream \in DOMAIN headers
    /\ headers[message.stream] = <<(<<"a">>), (<<"b">>)>>

\* C8: a record whose keys are all in the stream's HeaderSet leaves the
\* HeaderSet as it was, same columns, same order, no duplicates.
C8_ReconcileIdempotent ==
    [][(/\ nread' = nread + 1
        /\ message'.type = "RECORD"
        /\ error' = None
        /\ message'.stream \in DOMAIN headers
        /\ Range(RecordKeys(message'.record)) \subseteq Range(headers[message'.stream]))
       => /\ headers'[message'.stream] = headers[message'.stream]
          /\ NoDup(headers'[message'.stream])]_vars

\* The same keys were reconciled twice in a row.
C8_Witness ==
    /\ RecordPersisted
    /\ Len(records_in[message.stream]) >= 2
    /\ LET n == Len(records_in[message.stream]) IN
         /\ RecordKeys(records_in[message.stream][n]) =
              RecordKeys(records_in[message.stream][n - 1])
         /\ Len(RecordKeys(message.record)) = 2
         /\ headers[message.stream] = RecordKeys(records_in[message.stream][n - 1])

\* C9: every finalized file begins with the HeaderSet's column names joined
\* by the configured delimiter, and a line terminator.
C9_HeaderLineUsesDelimiter ==
    \A f \in FinalizedFiles :
        IsPrefix(JoinWith(headers[f.stream], <<config.delimiter>>) \o <<LF>>,
                 f.content)

\* Rows of the content found in the staging file before the run.
RowsBefore(s) == IF FileWasEmpty(s) THEN 0 ELSE Len(CsvRows(fs0[s]))

\* The record is recovered from the row, read against the header row.
Recovers(header, row, record) ==
    \A i \in DOMAIN record :
        \E col \in DOMAIN header :
            /\ header[col] = record[i][1]
            /\ col \in DOMAIN row
            /\ row[col] = record[i][2]

\* C10: in a run that completes, every record is recovered from its row of
\* the finalized file read positionally against the header line.
C10_RoundTrip ==
    \A f \in FinalizedFiles :
        LET s == f.stream
            rows == CsvRows(f.content)
        IN \A j \in DOMAIN records_in[s] :
              /\ 1 + RowsBefore(s) + j \in DOMAIN rows
              /\ Recovers(rows[1], rows[1 + RowsBefore(s) + j], records_in[s][j])

\* The content of the staging file of the stream before the run.
ContentBefore(s) == IF s \in DOMAIN fs0 THEN fs0[s] ELSE <<>>

\* The header line that the header loop writes for the stream.
HeaderLine(s) == JoinWith(headers[s], <<COMMA>>) \o <<LF>>

\* C11: every file handed to the upload starts with its header line and
\* holds, after it, the content found before the run and every row appended
\* for its stream, as a text-mode read returns them; after a failure of the
\* header loop no file is uploaded.
C11_NoHeaderlessOrTruncatedUpload ==
    /\ \A i \in DOMAIN uploaded :
          LET s == uploaded[i].stream IN
          /\ IsPrefix(HeaderLine(s), uploaded[i].content)
          /\ uploaded[i].content =
               HeaderLine(s) \o ReadText(ContentBefore(s) \o Flatten(rows_out[s]))
    /\ error = "OSError" => uploaded = <<>>

\* The header loop failed on the second file after rewriting the first.
C11_Witness ==
    /\ error = "OSError"
    /\ Len(filenames) = 2
    /\ Len(finalized) = 1
    /\ Len(fs[filenames[2]]) <= 1
    /\ rows_out[filenames[2]] # <<>>
    /\ uploaded = <<>>

\* The text after the first line of a file.
AfterFirstLine(content) ==
    IF \E i \in DOMAIN content : content[i] = LF
    THEN SubSeq(content,
                (CHOOSE i \in DOMAIN content :
                    content[i] = LF /\ \A j \in 1..(i - 1) : content[j] # LF) + 1,
                Len(content))
    ELSE <<>>

\* A row as writerow wrote it, without its line terminator "\r\n".
RowBody(row) == SubSeq(row, 1, Len(row) - 2)

\* C12: in the finalized file of a stream (whose staging file was empty or
\* absent before the run) the text after the header line is the rows written
\* at append time, in arrival order, each with the content it was written
\* with and a line terminator.
C12_RowsKeptAsWritten ==
    \A f \in FinalizedFiles :
        FileWasEmpty(f.stream) =>
            AfterFirstLine(f.content) =
                Flatten([i \in DOMAIN rows_out[f.stream] |->
                            RowBody(rows_out[f.stream][i]) \o <<LF>>])

\* The csv records of a text as written, read without newline translation.
RawRows(text) == ReadRowsFrom(text, 1, config.delimiter, config.quotechar)

\* The fields of a row for the columns h: the record's value of a column it
\* has, the empty string for any other column.
AlignedTo(h, fields, record) ==
    /\ Len(fields) = Len(h)
    /\ \A c \in DOMAIN h :
          fields[c] = (IF \E i \in DOMAIN record : record[i][1] = h[c]
                       THEN record[CHOOSE i \in DOMAIN record : record[i][1] = h[c]][2]
                       ELSE <<>>)

\* C13: the step that persists a RECORD appends to the stream's file one
\* csv record and nothing else (no header row); it has one field per column
\* of the HeaderSet as reconciled with this record, in HeaderSet order: the
\* record's value, or an empty field for a column the record lacks.
C13_RowAlignedToHeaderSet ==
    [][(/\ nread' = nread + 1
        /\ message'.type = "RECORD"
        /\ error' = None)
       => LET s == message'.stream
              old == IF s \in DOMAIN fs THEN fs[s] ELSE <<>>
              written == SubSeq(fs'[s], Len(old) + 1, Len(fs'[s]))
          IN /\ IsPrefix(old, fs'[s])
             /\ Len(RawRows(written)) = 1
             /\ AlignedTo(headers'[s], RawRows(written)[1], message'.record)]_vars

\* A record with one key was written under a HeaderSet of two columns that
\* begins with a column the record lacks.
C13_Witness ==
    /\ RecordPersisted
    /\ Len(message.record) = 1
    /\ Len(headers[message.stream]) = 2
    /\ headers[message.stream][2] = message.record[1][1]
    /\ RawRows(Last(rows_out[message.stream])) =
         <<(<< <<>>, message.record[1][2] >>)>>

\* The number of fields of the i-th row written for the stream in this run,
\* as it was written and as a reader of the file f finds it.
FieldsAsWritten(s, i) == Len(RawRows(rows_out[s][i])[1])

FieldsInFile(f, i) == Len(CsvRows(f.content)[1 + RowsBefore(f.stream) + i])

\* Every row written in this run is in the finalized file with the number
\* of fields it was written with.
RowsKeepTheirWidth ==
    \A f \in FinalizedFiles :
        /\ Len(CsvRows(f.content)) =
             1 + RowsBefore(f.stream) + Len(rows_out[f.stream])
        /\ \A i \in DOMAIN rows_out[f.stream] :
              FieldsInFile(f, i) = FieldsAsWritten(f.stream, i)

\* C14: a row written with n fields has n fields in the finalized file, and
\* when a row was written before the HeaderSet reached its final width, the
\* finalized file holds a row with fewer fields than its header line has
\* columns.
C14_RowsNeverWidened ==
    /\ RowsKeepTheirWidth
    /\ \A f \in FinalizedFiles :
          (\E i \in DOMAIN rows_out[f.stream] :
                FieldsAsWritten(f.stream, i) < Len(headers[f.stream]))
          => \E j \in 2..Len(CsvRows(f.content)) :
                Len(CsvRows(f.content)[j]) < Len(CsvRows(f.content)[1])

\* The containers of the message loop that hold the data of the streams and
\* the processing state.
DataVars == <<headers, fs, record_counter, state>>

\* C15: a step that reads a SCHEMA, ACTIVATE_VERSION or unknown-type message
\* leaves the HeaderSets, the staging files, the RecordCounters and the
\* ProcessingState as they were; SCHEMA sets the schema, validator and key
\* properties of its own stream only; ACTIVATE_VERSION and unknown-type
\* messages change none of them and do not end the run.
C15_NonDataMessagesFrame ==
    [][(/\ nread' = nread + 1
        /\ message'.type \in {"SCHEMA", "ACTIVATE_VERSION", "BATCH"})
       => /\ UNCHANGED DataVars
          /\ UNCHANGED <<filenames, endVars>>
          /\ message'.type = "SCHEMA" =>
                /\ pc' = "loop" /\ error' = None
                /\ DOMAIN schemas' = DOMAIN schemas \cup {message'.stream}
                /\ schemas'[message'.stream] = message'.schema
                /\ validators'[message'.stream] = message'.schema
                /\ key_properties'[message'.stream] = message'.key_properties
                /\ \A t \in DOMAIN schemas \ {message'.stream} :
                      /\ schemas'[t] = schemas[t]
                      /\ validators'[t] = validators[t]
                      /\ key_properties'[t] = key_properties[t]
          /\ message'.type # "SCHEMA" =>
                /\ UNCHANGED <<schemas, validators, key_properties>>
                /\ pc' = "loop" /\ error' = None]_vars

\* The record breaks the schema of its stream with a precision error (a
\* multipleOf check of a value), or with an error of another class (a
\* property the schema does not declare).
PrecisionError(s, record) == schemas[s].multipleOf /\ record # <<>>

OtherValidationError(s, record) ==
    /\ ~PrecisionError(s, record)
    /\ \E i \in DOMAIN record : record[i][1] \notin schemas[s].properties

\* C16: a RECORD of a stream with a schema whose validation raises no
\* precision error, whether it is valid or not, is reconciled, appended and
\* counted and the run goes on; one whose validation raises a precision
\* error ends the run with the HeaderSets, files and counters untouched.
C16_ValidationAdvisory ==
    [][(/\ nread' = nread + 1
        /\ message'.type = "RECORD"
        /\ message'.stream \in DOMAIN schemas)
       => LET s == message'.stream
              record == message'.record
              old == IF s \in DOMAIN fs THEN fs[s] ELSE <<>>
              n == IF s \in DOMAIN record_counter THEN record_counter[s] ELSE 0
          IN IF PrecisionError(s, record)
             THEN /\ pc' = "failed"
                  /\ error' = "InvalidOperation"
                  /\ UNCHANGED <<headers, fs, record_counter, filenames,
                                 records_in, rows_out>>
             ELSE /\ pc' = "loop"
                  /\ error' = None
                  /\ Range(RecordKeys(record)) \subseteq Range(headers'[s])
                  /\ s \in DOMAIN headers =>
                        /\ IsPrefix(headers[s], headers'[s])
                        /\ Range(headers'[s]) =
                             Range(headers[s]) \cup Range(RecordKeys(record))
                  /\ IsPrefix(old, fs'[s])
                  /\ AlignedTo(headers'[s],
                               RawRows(SubSeq(fs'[s], Len(old) + 1, Len(fs'[s])))[1],
                               record)
                  /\ record_counter'[s] = n + 1
                  /\ Last(records_in'[s]) = record]_vars

\* A record with a column its schema does not declare has just been
\* persisted: its column is in the HeaderSet, its row is the last of the
\* file and it was counted.
C16_Witness ==
    /\ RecordPersisted
    /\ OtherValidationError(message.stream, message.record)
    /\ record_counter[message.stream] = Len(records_in[message.stream])
    /\ Range(RecordKeys(message.record)) \subseteq Range(headers[message.stream])
    /\ Last(rows_out[message.stream]) # <<CR, LF>>
    /\ LET f == fs[message.stream]
           row == Last(rows_out[message.stream])
       IN SubSeq(f, Len(f) - Len(row) + 1, Len(f)) = row

\* The columns of the first line of a file, read with the configured dialect.
FirstLineColumns(content) ==
    FirstLine(content, config.delimiter, config.quotechar)

\* C17: when the first RECORD of a stream finds content in the stream's
\* staging file, the HeaderSet becomes the columns of the file's first line,
\* each once and in their order, followed by the record's keys that are not
\* among them, in the record's order; nothing of the later lines enters the
\* HeaderSet; the file keeps its content and gains the record's row at the
\* end.
C17_ExistingFileHeaderUnion ==
    [][(/\ nread' = nread + 1
        /\ message'.type = "RECORD"
        /\ error' = None
        /\ records_in[message'.stream] = <<>>
        /\ message'.stream \in DOMAIN fs
        /\ fs[message'.stream] # <<>>)
       => LET s == message'.stream
              first_line == FirstLineColumns(fs[s])
              keys == RecordKeys(message'.record)
          IN /\ IsFirstSeenOrder(headers'[s], first_line \o keys)
             /\ fs'[s] = fs[s] \o Last(rows_out'[s])
             /\ AlignedTo(headers'[s], RawRows(Last(rows_out'[s]))[1],
                          message'.record)]_vars

\* The first record of a stream found a file whose first line names c, a
\* and c again; the record brought a and b; the HeaderSet is c, a, b and the
\* row follows the content found.
C17_Witness ==
    /\ RecordPersisted
    /\ records_in[message.stream] = <<message.record>>
    /\ message.stream \in DOMAIN fs0
    /\ fs0[message.stream] = ExistingFile
    /\ FirstLineColumns(fs0[message.stream]) = <<(<<"c">>), (<<"a">>), (<<"c">>)>>
    /\ RecordKeys(message.record) = <<(<<"a">>), (<<"b">>)>>
    /\ headers[message.stream] = <<(<<"c">>), (<<"a">>), (<<"b">>)>>
    /\ fs[message.stream] = ExistingFile \o Last(rows_out[message.stream])

\* C18: when the row of a RECORD is written, every key of the record is a
\* column of the HeaderSet the row is written under, and every value of the
\* record is in the row, in the field of its column: none is dropped.
C18_NoValueDropped ==
    [][(/\ nread' = nread + 1
        /\ message'.type = "RECORD"
        /\ error' = None)
       => LET s == message'.stream
              record == message'.record
              old == IF s \in DOMAIN fs THEN fs[s] ELSE <<>>
              fields == RawRows(SubSeq(fs'[s], Len(old) + 1, Len(fs'[s])))[1]
          IN /\ Range(RecordKeys(record)) \subseteq Range(headers'[s])
             /\ \A i \in DOMAIN record :
                   \E c \in DOMAIN headers'[s] :
                       /\ headers'[s][c] = record[i][1]
                       /\ c \in DOMAIN fields
                       /\ fields[c] = record[i][2]]_vars

\* A record has just brought a key that no earlier record of its stream
\* had, and its value is the last field of the row written.
C18_Witness ==
    /\ RecordPersisted
    /\ FileWasEmpty(message.stream)
    /\ Len(records_in[message.stream]) >= 2
    /\ LET s == message.stream
           n == Len(records_in[s])
           fields == RawRows(Last(rows_out[s]))[1]
       IN /\ Len(message.record) = 1
          /\ \A i \in 1..(n - 1) : ~HasKey(records_in[s][i], message.record[1][1])
          /\ Len(headers[s]) = 2
          /\ Len(fields) = 2
          /\ fields[2] = message.record[1][2]

\* The dicts d and e agree at key t: both lack it, or both hold the same
\* value for it.
SameAt(d, e, t) ==
    /\ t \in DOMAIN d <=> t \in DOMAIN e
    /\ t \in DOMAIN d => d[t] = e[t]

\* The streams that had a RECORD persisted.
StreamsWithData == {s \in Streams : records_in[s] # <<>>}

\* No file is finalized or uploaded twice, and none for a stream without a
\* persisted RECORD; once the upload has returned, each stream with a
\* persisted RECORD has its file finalized and uploaded.
OneFilePerStreamWithData ==
    /\ NoDup(finalized)
    /\ NoDup([i \in DOMAIN uploaded |-> uploaded[i].stream])
    /\ Range(finalized) \subseteq StreamsWithData
    /\ {uploaded[i].stream : i \in DOMAIN uploaded} \subseteq StreamsWithData
    /\ pc \in {"return", "done"} =>
          /\ Range(finalized) = StreamsWithData
          /\ {uploaded[i].stream : i \in DOMAIN uploaded} = StreamsWithData

\* C19: a step that reads a RECORD of a stream leaves the HeaderSet, the
\* staging file and the RecordCounter of every other stream, and the
\* ProcessingState, as they were; and at the end of the input one file is
\* finalized and uploaded for each stream that had a RECORD persisted, none
\* for a stream that had only SCHEMA messages.
C19_StreamsIsolated ==
    /\ [](OneFilePerStreamWithData)
    /\ [][(/\ nread' = nread + 1
           /\ message'.type = "RECORD")
          => /\ state' = state
             /\ \A t \in Streams \ {message'.stream} :
                   /\ SameAt(headers, headers', t)
                   /\ SameAt(fs, fs', t)
                   /\ SameAt(record_counter, record_counter', t)]_vars

\* Both streams had a SCHEMA message, one of them had records: its file, and
\* no other, was finalized and uploaded, while the other stream's HeaderSet
\* and RecordCounter never came to be.
C19_Witness ==
    /\ pc \in {"return", "done"}
    /\ DOMAIN schemas = Streams
    /\ Cardinality(StreamsWithData) = 1
    /\ Len(uploaded) = 1
    /\ finalized = <<uploaded[1].stream>>
    /\ uploaded[1].stream \in StreamsWithData
    /\ DOMAIN headers = StreamsWithData
    /\ DOMAIN record_counter = StreamsWithData

====
